---- MODULE Spec2Model ----
(***************************************************************************)
(* Model of scripts/gen.py: the ATEN -> XLA wrapper generator.             *)
(*                                                                         *)
(* Text is a sequence of chunks.  A chunk stands for a run of characters   *)
(* that the lexer never splits: one blank, one punctuation mark, or a      *)
(* piece of a word.  Adjacent word chunks form one word, so a token spans  *)
(* one or more positions and every column of the source is a position of   *)
(* the chunk sequence.  A Python string is a chunk sequence, '' is << >>.  *)
(***************************************************************************)
EXTENDS Integers, Sequences, FiniteSets, TLC

\* ------------------------------------------------------------------------
\* Python helpers
\* ------------------------------------------------------------------------

\* Python's None, where a tree or a record is expected, and where a string is.
None == [none |-> TRUE]
NoneStr == <<"<None>">>

\* s[a:b] for 0 <= a, 0 <= b.
Slice(s, a, b) == SubSeq(s, a + 1, IF b > Len(s) THEN Len(s) ELSE b)

\* s.find(pat) >= 0
Find(s, pat) ==
  \E i \in 1..(Len(s) - Len(pat) + 1) : SubSeq(s, i, i + Len(pat) - 1) = pat

\* '{}'.format(v) of a string or of None.
Fmt(v) == IF v = NoneStr THEN <<"None">> ELSE v

RECURSIVE Flatten(_)
Flatten(ss) == IF ss = <<>> THEN <<>> ELSE Head(ss) \o Flatten(Tail(ss))

\* sep.join(ss)
RECURSIVE Join(_, _)
Join(sep, ss) ==
  IF ss = <<>> THEN <<>>
  ELSE IF Len(ss) = 1 THEN ss[1]
  ELSE ss[1] \o sep \o Join(sep, Tail(ss))

\* ------------------------------------------------------------------------
\* Lexer: the terminals of _GRAMMAR
\* ------------------------------------------------------------------------

WS == " "
PunctChunks == {"(", ")", ",", "<", ">", "=", "&", "*", "{}"}
\* Word chunks holding a ':' (TNAME allows it, CNAME does not).
ColonChunks == {"at::", "c10::", "std::tuple", "std::vector", "std::array"}
\* Word chunks that start with a digit or a sign (NUMBER, SIGNED_NUMBER).
NumberChunks == {"0", "1", "2", "3", "-1"}
IsWordChunk(c) == c # WS /\ c \notin PunctChunks

\* The end (exclusive, as a position) of the word starting at position i.
RECURSIVE WordEnd(_, _)
WordEnd(text, i) ==
  IF i <= Len(text) /\ IsWordChunk(text[i]) THEN WordEnd(text, i + 1) ELSE i

\* The raw tokens of a text, blanks dropped (%ignore WS); column is 1-based,
\* end_column is exclusive, as lark records them.
RECURSIVE Lex(_, _)
Lex(text, i) ==
  IF i > Len(text) THEN <<>>
  ELSE IF text[i] = WS THEN Lex(text, i + 1)
  ELSE IF text[i] \in PunctChunks
    THEN <<[value |-> <<text[i]>>, column |-> i, end_column |-> i + 1]>>
         \o Lex(text, i + 1)
  ELSE LET e == WordEnd(text, i)
       IN  <<[value |-> SubSeq(text, i, e - 1), column |-> i, end_column |-> e]>>
           \o Lex(text, e)

IsWord(raw) == IsWordChunk(raw.value[1])
\* CNAME: /[a-zA-Z_]\w*/
IsCNAME(raw) ==
  /\ IsWord(raw)
  /\ raw.value[1] \notin NumberChunks
  /\ \A k \in 1..Len(raw.value) : raw.value[k] \notin ColonChunks
\* TNAME: /[a-zA-Z0-9_:]+/
IsTNAME(raw) == IsWord(raw) /\ raw.value[1] # "-1"
\* init_value
IsInitValue(raw) ==
  \/ raw.value \in {<<"true">>, <<"false">>, <<"{}">>}
  \/ Len(raw.value) = 1 /\ raw.value[1] \in NumberChunks

AnonName(v) ==
  CASE v = <<"(">> -> "LPAR"
    [] v = <<")">> -> "RPAR"
    [] v = <<",">> -> "COMMA"
    [] v = <<"<">> -> "LESSTHAN"
    [] v = <<">">> -> "MORETHAN"
    [] v = <<"=">> -> "EQUAL"
    [] v = <<"true">> -> "TRUE"
    [] v = <<"false">> -> "FALSE"
    [] v = <<"{}">> -> "ANON"
    [] OTHER -> "NUMBER"
AnonTypes == {"LPAR", "RPAR", "COMMA", "LESSTHAN", "MORETHAN", "EQUAL",
              "TRUE", "FALSE", "ANON"}

Token(type, raw) ==
  [type |-> type, value |-> raw.value, column |-> raw.column,
   end_column |-> raw.end_column]
Tree(data, children) == [data |-> data, children |-> children]
IsToken(t) == "type" \in DOMAIN t
IsTree(t) == "data" \in DOMAIN t

\* ------------------------------------------------------------------------
\* Parser: _GRAMMAR, with every token kept (_XPARSER)
\* ------------------------------------------------------------------------

ParseFail == [ok |-> FALSE, tree |-> <<>>, next |-> 0]
ParseOk(tree, next) == [ok |-> TRUE, tree |-> tree, next |-> next]
At(toks, i, v) == i <= Len(toks) /\ toks[i].value = v

RECURSIVE ParseType(_, _)
RECURSIVE ParseTypeList(_, _)

\* template: TNAME "<" typelist ">", the typelist tl parsed
ParseTemplate(toks, i, tl) ==
  IF tl.ok /\ At(toks, tl.next, <<">">>)
    THEN ParseOk(Tree("core_type",
           <<Tree("template",
                  <<Token("TNAME", toks[i]), Token("LESSTHAN", toks[i + 1]),
                    tl.tree, Token("MORETHAN", toks[tl.next])>>)>>),
           tl.next + 1)
    ELSE ParseFail

\* core_type: template | TNAME
ParseCoreType(toks, i) ==
  IF ~(i <= Len(toks) /\ IsTNAME(toks[i])) THEN ParseFail
  ELSE IF At(toks, i + 1, <<"<">>)
    THEN ParseTemplate(toks, i, ParseTypeList(toks, i + 2))
  ELSE ParseOk(Tree("core_type", <<Token("TNAME", toks[i])>>), i + 1)

\* type: CONST? core_type refspec? ;  refspec: REF | PTR, the core_type parsed
ParseRefspec(toks, i, hasConst, core) ==
  IF ~core.ok THEN ParseFail
  ELSE LET k == core.next
           isRef == At(toks, k, <<"&">>)
           isPtr == At(toks, k, <<"*">>)
           pre == IF hasConst THEN <<Token("CONST", toks[i])>> ELSE <<>>
           post == IF isRef
                     THEN <<Tree("refspec", <<Token("REF", toks[k])>>)>>
                   ELSE IF isPtr
                     THEN <<Tree("refspec", <<Token("PTR", toks[k])>>)>>
                   ELSE <<>>
       IN  ParseOk(Tree("type", pre \o <<core.tree>> \o post),
                   IF isRef \/ isPtr THEN k + 1 ELSE k)

ParseType(toks, i) ==
  IF At(toks, i, <<"const">>)
    THEN ParseRefspec(toks, i, TRUE, ParseCoreType(toks, i + 1))
    ELSE ParseRefspec(toks, i, FALSE, ParseCoreType(toks, i))

\* x | x "," xs : the list node of rule `data`, x parsed and xs parsed
ParseListJoin(toks, data, x, xs) ==
  IF xs.ok
    THEN ParseOk(Tree(data, <<x.tree, Token("COMMA", toks[x.next]), xs.tree>>),
                 xs.next)
    ELSE ParseFail

\* typelist: type | type "," typelist
ParseTypeListTail(toks, ty) ==
  IF ~ty.ok THEN ParseFail
  ELSE IF At(toks, ty.next, <<",">>)
    THEN ParseListJoin(toks, "typelist", ty, ParseTypeList(toks, ty.next + 1))
  ELSE ParseOk(Tree("typelist", <<ty.tree>>), ty.next)

ParseTypeList(toks, i) == ParseTypeListTail(toks, ParseType(toks, i))

\* param: type param_name param_defval? ;  param_defval: "=" init_value
ParseParamName(toks, ty) ==
  IF ~ty.ok THEN ParseFail
  ELSE LET n == ty.next
       IN  IF ~(n <= Len(toks) /\ IsCNAME(toks[n])) THEN ParseFail
           ELSE LET name == Tree("param_name", <<Token("CNAME", toks[n])>>)
                IN  IF At(toks, n + 1, <<"=">>)
                      THEN IF n + 2 <= Len(toks) /\ IsInitValue(toks[n + 2])
                             THEN ParseOk(Tree("param",
                                    <<ty.tree, name,
                                      Tree("param_defval",
                                        <<Token("EQUAL", toks[n + 1]),
                                          Tree("init_value",
                                            <<Token(AnonName(toks[n + 2].value),
                                                    toks[n + 2])>>)>>)>>),
                                    n + 3)
                             ELSE ParseFail
                    ELSE ParseOk(Tree("param", <<ty.tree, name>>), n + 1)

ParseParam(toks, i) == ParseParamName(toks, ParseType(toks, i))

\* params: param | param "," params
RECURSIVE ParseParams(_, _)
ParseParamsTail(toks, p) ==
  IF ~p.ok THEN ParseFail
  ELSE IF At(toks, p.next, <<",">>)
    THEN ParseListJoin(toks, "params", p, ParseParams(toks, p.next + 1))
  ELSE ParseOk(Tree("params", <<p.tree>>), p.next)

ParseParams(toks, i) == ParseParamsTail(toks, ParseParam(toks, i))

\* start: type fnname "(" params ")" ;  fnname: CNAME
ParseStartEnd(toks, ty, ps) ==
  IF ps.ok /\ At(toks, ps.next, <<")">>) /\ ps.next = Len(toks)
    THEN ParseOk(Tree("start",
           <<ty.tree,
             Tree("fnname", <<Token("CNAME", toks[ty.next])>>),
             Token("LPAR", toks[ty.next + 1]),
             ps.tree,
             Token("RPAR", toks[ps.next])>>),
           ps.next + 1)
    ELSE ParseFail

ParseStartName(toks, ty) ==
  IF ~ty.ok THEN ParseFail
  ELSE IF ~(ty.next <= Len(toks) /\ IsCNAME(toks[ty.next])
            /\ At(toks, ty.next + 1, <<"(">>))
    THEN ParseFail
  ELSE ParseStartEnd(toks, ty, ParseParams(toks, ty.next + 2))

ParseStart(toks) == ParseStartName(toks, ParseType(toks, 1))

\* _XPARSER.parse(sig): [ok, tree]; ok = FALSE is lark's parse exception.
XParse(sig) == ParseStart(Lex(sig, 1))

\* The tree of _PARSER: the same parse with the anonymous tokens filtered out.
RECURSIVE StripAnon(_)
RECURSIVE StripAnonSeq(_)
StripAnonSeq(cs) ==
  IF cs = <<>> THEN <<>>
  ELSE (IF IsToken(Head(cs))
          THEN (IF Head(cs).type \in AnonTypes THEN <<>> ELSE <<Head(cs)>>)
          ELSE <<StripAnon(Head(cs))>>)
       \o StripAnonSeq(Tail(cs))
StripAnon(t) == Tree(t.data, StripAnonSeq(t.children))

\* _PARSER.parse(sig), for a sig that parses.
Parse(sig) == StripAnon(XParse(sig).tree)

\* ------------------------------------------------------------------------
\* Static tables
\* ------------------------------------------------------------------------

FN_BLACKLIST ==
  {<<"toBackend">>, <<"toScalarType">>, <<"backward">>, <<"set_data">>,
   <<"tensorFromBlob">>, <<"tensorWithAllocator">>, <<"storageFromBlob">>,
   <<"storageWithAllocator">>, <<"unsafeStorageFromTH">>,
   <<"unsafeTensorFromTH">>, <<"ones_like">>, <<"zeros_like">>}

\* The patterns of _FN_BLACKLIST_REGEX; each is r'[^(]*' followed by a word.
FN_BLACKLIST_REGEX == <<"cudnn">>

TYPE_NSMAP ==
  (<<"Tensor">> :> <<"at::", "Tensor">>) @@
  (<<"TensorList">> :> <<"at::", "TensorList">>) @@
  (<<"Scalar">> :> <<"at::", "Scalar">>) @@
  (<<"Storage">> :> <<"at::", "Storage">>) @@
  (<<"IntList">> :> <<"at::", "IntList">>) @@
  (<<"IntArrayRef">> :> <<"at::", "IntArrayRef">>) @@
  (<<"Generator">> :> <<"at::", "Generator">>) @@
  (<<"ScalarType">> :> <<"at::", "ScalarType">>) @@
  (<<"TensorOptions">> :> <<"at::", "TensorOptions">>) @@
  (<<"SparseTensorRef">> :> <<"at::", "SparseTensorRef">>) @@
  (<<"Device">> :> <<"c10::", "Device">>) @@
  (<<"optional">> :> <<"at::", "optional">>)

XLA_FUNCTIONS == << >>

CTOR_FUNCTIONS ==
  (<<"empty">> :> <<".device(at::DeviceType::CPU)">>) @@
  (<<"linspace">> :> <<".device(at::DeviceType::CPU)">>) @@
  (<<"logspace">> :> <<".device(at::DeviceType::CPU)">>) @@
  (<<"ones">> :> <<".device(at::DeviceType::CPU)">>) @@
  (<<"randn">> :> <<".device(at::DeviceType::CPU)">>) @@
  (<<"zeros">> :> <<".device(at::DeviceType::CPU)">>)

FuncOpts(ref_param) == [ref_param |-> ref_param]

FUNCTION_OPTIONS ==
  (<<"to", "(", "Tensor", ",", " ", "TensorOptions", ",", " ", "bool", ",",
     " ", "bool", ")", " -> ", "Tensor">> :> FuncOpts(<<"options">>)) @@
  (<<"to", "(", "Tensor", ",", " ", "Device", ",", " ", "ScalarType", ",",
     " ", "bool", ",", " ", "bool", ")", " -> ", "Tensor">>
     :> FuncOpts(<<"device">>)) @@
  (<<"to", "(", "Tensor", ",", " ", "Tensor", ",", " ", "bool", ",", " ",
     "bool", ")", " -> ", "Tensor">> :> FuncOpts(<<"other">>))

RESULT_NAME == <<"x_result">>

\* d.get(k, None); none is the None of the values' kind.
DictGet(d, k, none) == IF k \in DOMAIN d THEN d[k] ELSE none

\* ------------------------------------------------------------------------
\* StringEmit
\* ------------------------------------------------------------------------

RECURSIVE first_match(_)
first_match(t) == IF IsToken(t) THEN t.column - 1 ELSE first_match(t.children[1])

RECURSIVE last_match(_)
last_match(t) ==
  IF IsToken(t) THEN t.end_column - 1
  ELSE last_match(t.children[Len(t.children)])

StringEmit(sref) == [sref |-> sref, sval |-> << >>, pos |-> -1]

\* Variant: one blank is emitted for the text between the cursor and the token.
advance_blank(emit, t) ==
  LET start == t.column - 1
      pos == IF emit.pos >= 0 THEN emit.pos ELSE start
      gap == IF start > pos THEN <<WS>> ELSE << >>
  IN  [emit EXCEPT !.sval = emit.sval \o gap \o t.value, !.pos = t.end_column - 1]

advance(emit, t) ==
  LET start == t.column - 1
      end == t.end_column - 1
      pos == IF emit.pos >= 0 THEN emit.pos ELSE start
      gap == IF start > pos THEN Slice(emit.sref, pos, start) ELSE << >>
  IN  [emit EXCEPT !.sval = emit.sval \o gap \o t.value, !.pos = end]

skip(emit, t) ==
  [emit EXCEPT !.pos = IF emit.pos >= 0 THEN last_match(t) ELSE -1]

append(emit, s) == [emit EXCEPT !.sval = emit.sval \o s, !.pos = -1]

\* for_every_token(t, emit.advance)
RECURSIVE for_every_token(_, _)
RECURSIVE for_every_token_in(_, _)
for_every_token_in(cs, emit) ==
  IF cs = << >> THEN emit
  ELSE LET e == for_every_token(Head(cs), emit)
       IN  IF e.pos < -1 THEN e ELSE for_every_token_in(Tail(cs), e)
for_every_token(t, emit) ==
  IF IsToken(t) THEN advance(emit, t) ELSE for_every_token_in(t.children, emit)

\* The emit_fn closures, by the name of the function that defines them.
emit_fn(policy, t) ==
  CASE policy = "rewrite_sig" -> 0
    [] policy = "rewrite_signature" ->
         IF IsToken(t) THEN 0 ELSE IF t.data = "param_defval" THEN -1 ELSE 0
    [] policy = "create_stdfunc_sig" ->
         IF IsToken(t) THEN 0 ELSE IF t.data = "param_name" THEN -1 ELSE 0
    [] policy = "create_map_sig" ->
         IF IsToken(t)
           THEN (IF t.type \in {"CONST", "REF", "PTR"} THEN -1 ELSE 0)
         ELSE IF t.data = "param_name" THEN -1 ELSE 0
    [] policy = "copy" -> 1

RECURSIVE emit_string(_, _, _)
RECURSIVE emit_children(_, _, _)
emit_children(cs, emit, policy) ==
  IF cs = << >> THEN emit
  ELSE LET e == emit_string(Head(cs), emit, policy)
       IN  IF e.pos < -1 THEN e ELSE emit_children(Tail(cs), e, policy)
emit_string(t, emit, policy) ==
  LET status == emit_fn(policy, t)
  IN  IF status > 0 THEN for_every_token(t, emit)
      ELSE IF status = 0
        THEN (IF IsToken(t) THEN advance(emit, t)
              ELSE emit_children(t.children, emit, policy))
      ELSE skip(emit, t)

typed_child(t, n, ttype) == t.children[n + 1]

rewrite_sig(tree, orig_sig, policy) ==
  emit_string(tree, StringEmit(orig_sig), policy).sval

\* for_every_token(xtree, rewrite) of rewrite_signature: the tree with the
\* value of every mapped TNAME replaced.
RECURSIVE rewrite(_, _)
RECURSIVE rewrite_in(_, _)
rewrite_in(cs, tmap) ==
  IF cs = << >> THEN << >>
  ELSE <<rewrite(Head(cs), tmap)>> \o rewrite_in(Tail(cs), tmap)
rewrite(t, tmap) ==
  IF IsToken(t)
    THEN (IF t.type = "TNAME" /\ t.value \in DOMAIN tmap
            THEN [t EXCEPT !.value = tmap[t.value]] ELSE t)
  ELSE Tree(t.data, rewrite_in(t.children, tmap))

\* Variant: the default values are copied, as rewrite_sig copies them.
rewrite_signature_defval(sig, tmap) ==
  rewrite_sig(rewrite(XParse(sig).tree, tmap), sig, "rewrite_sig")

rewrite_signature(sig, tmap) ==
  rewrite_sig(rewrite(XParse(sig).tree, tmap), sig, "rewrite_signature")

create_stdfunc_sig(tree, orig_sig) ==
  LET e0 == StringEmit(orig_sig)
      e1 == emit_string(typed_child(tree, 0, "type"), e0, "create_stdfunc_sig")
      e2 == append(e1, <<"(">>)
      e3 == emit_string(typed_child(tree, 3, "params"), e2, "create_stdfunc_sig")
      e4 == append(e3, <<")">>)
  IN  e4.sval

create_map_sig(tree, orig_sig) ==
  LET e0 == StringEmit(orig_sig)
      e1 == emit_string(typed_child(tree, 1, "fnname"), e0, "create_map_sig")
      e2 == append(e1, <<"(">>)
      e3 == emit_string(typed_child(tree, 3, "params"), e2, "create_map_sig")
      e4 == append(e3, <<")", " -> ">>)
      e5 == emit_string(typed_child(tree, 0, "type"), e4, "create_map_sig")
  IN  e5.sval

\* ------------------------------------------------------------------------
\* Tree accessors
\* ------------------------------------------------------------------------

\* A raised exception, or a returned value.
Raise == [exc |-> TRUE, val |-> << >>]
Return(v) == [exc |-> FALSE, val |-> v]

\* l[n] if n < len(l) else None   (n is 0-based)
list_get(l, n) == IF n < Len(l) THEN l[n + 1] ELSE None

\* Tree.__eq__ and Token.__eq__: data and children, a token by its text alone.
RECURSIVE PyForm(_)
RECURSIVE PyFormSeq(_)
PyFormSeq(cs) ==
  IF cs = << >> THEN << >> ELSE <<PyForm(Head(cs))>> \o PyFormSeq(Tail(cs))
PyForm(t) ==
  IF t = None THEN None
  ELSE IF IsToken(t) THEN [str |-> t.value]
  ELSE Tree(t.data, PyFormSeq(t.children))
PyEq(a, b) == PyForm(a) = PyForm(b)

IsCoreType(c) == IsTree(c) /\ c.data = "core_type"

type_core(t) ==
  LET k == CHOOSE i \in 1..Len(t.children) :
             /\ IsCoreType(t.children[i])
             /\ \A j \in 1..(i - 1) : ~IsCoreType(t.children[j])
      c == t.children[k].children[1]
  IN  IF IsToken(c) THEN c.value ELSE c.children[1].value

type_is_const(t) ==
  LET c == t.children[1] IN IsToken(c) /\ c.value = <<"const">>

type_is_refptr(t, kind) ==
  LET c == t.children[Len(t.children)]
  IN  IF ~IsTree(c) \/ c.data # "refspec" THEN FALSE
      ELSE IsToken(c.children[1]) /\ c.children[1].value = kind

RECURSIVE extract_list(_)
extract_list(t) ==
  <<t.children[1]>> \o
  (IF Len(t.children) = 2
     THEN LET c == t.children[2]
          IN  IF IsTree(c) /\ c.data = t.data THEN extract_list(c) ELSE << >>
     ELSE << >>)

\* Raises on the asserts: the first child must be the core_type, a template.
tuple_type_list(t) ==
  LET c == t.children[1]
  IN  IF ~IsCoreType(c) THEN Raise
      ELSE IF ~(IsTree(c.children[1]) /\ c.children[1].data = "template")
        THEN Raise
      ELSE Return(extract_list(c.children[1].children[2]))

get_parameters(t) == extract_list(t.children[3])

\* param_name of a parameter tree (of None: an AssertionError, see the callers).
param_name(t) == t.children[2].children[1].value

param_type(t) == t.children[1]

\* ------------------------------------------------------------------------
\* Reference parameter and return value
\* ------------------------------------------------------------------------

\* The loop of get_reference_param from parameter i on.
RECURSIVE get_reference_param_from(_, _, _, _, _)
get_reference_param_from(params, fnopts, i, ref_param, other) ==
  IF i > Len(params)
    THEN (IF ref_param # None THEN ref_param ELSE other)
  ELSE
    LET p == params[i]
        ptype == param_type(p)
        cptype == type_core(ptype)
        pname == param_name(p)
        other1 == IF other = None /\ (cptype = <<"TensorOptions">>
                                      \/ cptype = <<"TensorList">>)
                    THEN p ELSE other
    IN  IF fnopts # None /\ fnopts.ref_param = pname THEN p
        ELSE IF cptype # <<"Tensor">>
          THEN get_reference_param_from(params, fnopts, i + 1, ref_param, other1)
        ELSE get_reference_param_from(params, fnopts, i + 1,
               IF ref_param = None /\ (pname = <<"self">> \/ type_is_const(ptype))
                 THEN p ELSE ref_param,
               p)

\* Variant: a TensorOptions or TensorList parameter, when there is one, is
\* preferred to the last Tensor parameter.
get_reference_param_other(params, fnopts) ==
  IF /\ fnopts = None
     /\ \A k \in 1..Len(params) :
          type_core(param_type(params[k])) = <<"Tensor">> =>
            /\ param_name(params[k]) # <<"self">>
            /\ ~type_is_const(param_type(params[k]))
     /\ \E k \in 1..Len(params) :
          type_core(param_type(params[k])) \in {<<"TensorOptions">>, <<"TensorList">>}
    THEN params[CHOOSE k \in 1..Len(params) :
                  /\ type_core(param_type(params[k]))
                       \in {<<"TensorOptions">>, <<"TensorList">>}
                  /\ \A j \in 1..(k - 1) :
                       type_core(param_type(params[j]))
                         \notin {<<"TensorOptions">>, <<"TensorList">>}]
    ELSE get_reference_param_from(params, fnopts, 1, None, None)

\* Variant: the override table is not consulted.
get_reference_param_noopts(params, fnopts) ==
  get_reference_param_from(params, None, 1, None, None)

get_reference_param(params, fnopts) ==
  get_reference_param_from(params, fnopts, 1, None, None)

\* Variant: a const or reference return type is handled as a value.
get_return_value_noalias(rtype, rname, param, var, ref_param) ==
  IF type_core(rtype) # <<"Tensor">> THEN Return(rname)
  ELSE IF ref_param = None THEN Raise
  ELSE Return(<<"bridge::CreateXlaTensor(">> \o rname
              \o <<", bridge::GetXlaDevice(">> \o param_name(ref_param)
              \o <<"))">>)

get_return_value(rtype, rname, param, var, ref_param) ==
  LET crtype == type_core(rtype)
  IN  IF type_is_const(rtype) \/ type_is_refptr(rtype, <<"&">>)
        THEN (IF param = None THEN Raise ELSE Return(param_name(param)))
      ELSE IF crtype # <<"Tensor">> THEN Return(rname)
      ELSE IF ref_param = None THEN Raise
      ELSE Return(<<"bridge::CreateXlaTensor(">> \o rname
                  \o <<", bridge::GetXlaDevice(">> \o param_name(ref_param)
                  \o <<"))">>)

\* The loop of get_tuple_return from element i (0-based) on.
RECURSIVE get_tuple_return_from(_, _, _, _, _, _, _)
get_tuple_return_from(types, i, retstr, rname, params, param_vars, ref_param) ==
  IF i >= Len(types) THEN Return(retstr \o <<")">>)
  ELSE
    LET sep == IF i > 0 THEN <<", ">> ELSE << >>
        tuple_var == <<"std::get<", ToString(i), ">(">> \o rname \o <<")">>
        v == get_return_value(types[i + 1], tuple_var, list_get(params, i),
                              list_get(param_vars, i), ref_param)
    IN  IF v.exc THEN Raise
        ELSE get_tuple_return_from(types, i + 1, retstr \o sep \o v.val, rname,
                                   params, param_vars, ref_param)

get_tuple_return(rtype, rtype_str, rname, params, param_vars, ref_param) ==
  LET types == tuple_type_list(rtype)
  IN  IF types.exc THEN Raise
      ELSE get_tuple_return_from(types.val, 0, rtype_str \o <<"(">>, rname,
                                 params, param_vars, ref_param)

get_return_type_str(t, orig_sig) ==
  Slice(orig_sig, 0, t.children[2].children[1].column - 2)

generate_debug_code(t, fname, rname, params, param_vars, ref_param) ==
  <<"  XLA_COUNTER(\"aten::">> \o fname \o <<"\", 1);\n">>

\* '  return {};\n'.format(retstr), retstr raised or returned
return_stmt(retstr) ==
  IF retstr.exc THEN Raise
  ELSE Return(<<"  return ">> \o retstr.val \o <<";\n">>)

generate_return_stmt(t, rtype_str, fname, rname, params, param_vars, ref_param) ==
  LET rtype == t.children[1]
      ctype == type_core(rtype)
  IN  IF ctype = <<"std::tuple">>
        THEN return_stmt(get_tuple_return(rtype, rtype_str, rname, params,
                                          param_vars, ref_param))
      ELSE IF ctype = <<"std::vector">>
        THEN (IF ref_param = None THEN Raise
              ELSE return_stmt(Return(<<"bridge::CreateXlaTensors(">> \o rname
                       \o <<", bridge::GetXlaDevice(">> \o param_name(ref_param)
                       \o <<"))">>)))
      ELSE IF ctype = <<"Tensor">>
        THEN return_stmt(get_return_value(rtype, rname, params[1], param_vars[1],
                                          ref_param))
      ELSE IF ctype = <<"void">> /\ ~type_is_refptr(rtype, <<"*">>)
        THEN Return(<< >>)
      ELSE return_stmt(Return(rname))

\* Variant: the pointer qualifier of a void return type is not looked at.
generate_result_assignment_void(t, rname) ==
  IF type_core(t.children[1]) = <<"void">> THEN << >>
  ELSE <<"auto&& ">> \o rname \o <<" = ">>

generate_result_assignment(t, rname) ==
  LET rtype == t.children[1]
      ctype == type_core(rtype)
  IN  IF ctype = <<"void">> /\ ~type_is_refptr(rtype, <<"*">>) THEN << >>
      ELSE <<"auto&& ">> \o rname \o <<" = ">>

\* ------------------------------------------------------------------------
\* Context, TensorFetcher, blacklist
\* ------------------------------------------------------------------------

Context(functions, native_functions, gen_class_mode) ==
  [gen_class_mode |-> gen_class_mode, defdb |-> << >>,
   functions_data |-> functions, native_functions_data |-> native_functions]

get_function(ctx, name, ref_param) ==
  IF Find(ctx.functions_data, <<" ">> \o name \o <<"(">>)
    THEN <<"at::">> \o name
  ELSE IF Find(ctx.native_functions_data, <<" ">> \o name \o <<"(">>)
    THEN <<"at::native::">> \o name
  ELSE <<"at::detail::infer_type(">> \o Fmt(ref_param) \o <<").">> \o name

TensorFetcher(var_name) ==
  [var_name |-> var_name, tensors |-> << >>, writeable |-> << >>]

\* TensorFetcher.add: the fetcher after the call; the call returns TensorRef.
TensorFetcherAdd(tf, name, writeable) ==
  [tf EXCEPT !.tensors = Append(tf.tensors, name),
             !.writeable = Append(tf.writeable,
                                  IF writeable THEN <<"true">> ELSE <<"false">>)]
TensorRef(tf) == tf.var_name \o <<"[", ToString(Len(tf.tensors) - 1), "]">>

TensorFetcherGenerate(tf) ==
  LET tvar_name == tf.var_name \o <<"_tensors">>
      wvar_name == tf.var_name \o <<"_writeables">>
  IN  <<"  std::vector<at::Tensor> ">> \o tvar_name \o <<" = {">>
        \o Join(<<", ">>, tf.tensors) \o <<"};\n">>
      \o <<"  std::vector<bool> ">> \o wvar_name \o <<" = {">>
        \o Join(<<", ">>, tf.writeable) \o <<"};\n">>
      \o <<"  auto ">> \o tf.var_name \o <<" = bridge::XlaCreateTensorList(">>
        \o tvar_name \o <<", &">> \o wvar_name \o <<");\n">>

\* re.match(r'[^(]*' + word, s)
ReMatch(word, s) ==
  \E i \in 1..Len(s) : s[i] = word /\ \A j \in 1..(i - 1) : s[j] # "("

\* Variant: the exact-name blacklist alone, without the loop over the patterns.
is_blacklisted_fn_exact(fname, mapsig) ==
  \/ fname \in FN_BLACKLIST
  \/ mapsig \in FN_BLACKLIST

is_blacklisted_fn(fname, mapsig) ==
  \/ fname \in FN_BLACKLIST
  \/ mapsig \in FN_BLACKLIST
  \/ \E k \in 1..Len(FN_BLACKLIST_REGEX) :
       ReMatch(FN_BLACKLIST_REGEX[k], fname) \/ ReMatch(FN_BLACKLIST_REGEX[k], mapsig)

\* ------------------------------------------------------------------------
\* get_xla_wrapper
\* ------------------------------------------------------------------------

get_function_signature(t, orig_sig, xfname) ==
  LET e0 == StringEmit(orig_sig)
      e1 == emit_string(typed_child(t, 0, "type"), e0, "rewrite_sig")
      e2 == append(e1, <<" ">> \o xfname \o <<"(">>)
      e3 == emit_string(typed_child(t, 3, "params"), e2, "rewrite_sig")
      e4 == append(e3, <<")">>)
  IN  e4.sval

\* gen_fnname: the generated name and the overload counters after the call.
\* Variant: the overload counter of a name is never incremented.
gen_fnname_nocount(ctx, x) ==
  IF ctx.gen_class_mode
    THEN [name |-> <<"AtenXlaTypeBase::">> \o x, defdb |-> ctx.defdb]
  ELSE IF x \in DOMAIN ctx.defdb
    THEN [name |-> <<"xla_">> \o x \o <<"_", ToString(ctx.defdb[x])>>,
          defdb |-> ctx.defdb]
  ELSE [name |-> <<"xla_">> \o x, defdb |-> (x :> 1) @@ ctx.defdb]

gen_fnname(ctx, x) ==
  IF ctx.gen_class_mode
    THEN [name |-> <<"AtenXlaTypeBase::">> \o x, defdb |-> ctx.defdb]
  ELSE IF x \in DOMAIN ctx.defdb
    THEN [name |-> <<"xla_">> \o x \o <<"_", ToString(ctx.defdb[x])>>,
          defdb |-> [ctx.defdb EXCEPT ![x] = @ + 1]]
  ELSE [name |-> <<"xla_">> \o x, defdb |-> (x :> 1) @@ ctx.defdb]

get_handling_function(ctx, fname, xla_ref_param) ==
  LET xla_function == DictGet(XLA_FUNCTIONS, fname, NoneStr)
  IN  IF xla_function # NoneStr /\ xla_function # << >> THEN xla_function
      ELSE get_function(ctx, fname, xla_ref_param)

\* Returns <<code, xname>>.
rewrite_tensor_options(fname, pname) ==
  LET rw == DictGet(CTOR_FUNCTIONS, fname, NoneStr)
  IN  IF rw = NoneStr THEN <<(<< >>), pname>>
      ELSE LET xname == <<"o_">> \o pname
           IN  <<(<<"  at::TensorOptions ">> \o xname \o <<" = ">> \o pname
                  \o rw \o <<";\n">>), xname>>

\* One iteration of the marshaling loop of get_xla_wrapper (lines 735-757);
\* st holds the locals code, tfetcher, param_vars, xla_ref_param.
marshal_param(p, fname, st) ==
  LET ptype == param_type(p)
      cptype == type_core(ptype)
      pname == param_name(p)
  IN  IF cptype = <<"TensorList">>
        THEN [st EXCEPT
                !.code = st.code \o <<"  auto ">> \o <<"l_">> \o pname
                         \o <<" = bridge::XlaCreateTensorList(">> \o pname
                         \o <<", /*writeable=*/nullptr);\n">>,
                !.param_vars = Append(st.param_vars, <<"l_">> \o pname)]
      ELSE IF cptype = <<"TensorOptions">>
        THEN [st EXCEPT
                !.code = st.code \o rewrite_tensor_options(fname, pname)[1],
                !.param_vars = Append(st.param_vars,
                                      rewrite_tensor_options(fname, pname)[2])]
      ELSE IF cptype # <<"Tensor">>
        THEN [st EXCEPT !.param_vars = Append(st.param_vars, pname)]
      ELSE [st EXCEPT
              !.tfetcher = TensorFetcherAdd(st.tfetcher, pname,
                                            ~type_is_const(ptype)),
              !.param_vars =
                 Append(st.param_vars,
                        TensorRef(TensorFetcherAdd(st.tfetcher, pname,
                                                   ~type_is_const(ptype))))]

\* if p == ref_param and not (fnopts and fnopts.ref_param): ...
marshal_ref(p, fnopts, ref_param, st) ==
  IF PyEq(p, ref_param) /\ ~(fnopts # None /\ fnopts.ref_param # << >>)
    THEN [st EXCEPT !.xla_ref_param = st.param_vars[Len(st.param_vars)]]
    ELSE st

RECURSIVE marshal_params(_, _, _, _, _, _)
marshal_params(params, i, fname, fnopts, ref_param, st) ==
  IF i > Len(params) THEN st
  ELSE marshal_params(params, i + 1, fname, fnopts, ref_param,
         marshal_ref(params[i], fnopts, ref_param,
                     marshal_param(params[i], fname, st)))

FuncGen(tree, xtree, rwxtree, func, xfunc, code, sig, rwsig, cppsig, funsig, mapsig) ==
  [tree |-> tree, xtree |-> xtree, rwxtree |-> rwxtree, func |-> func,
   xfunc |-> xfunc, code |-> code, sig |-> sig, rwsig |-> rwsig,
   cppsig |-> cppsig, funsig |-> funsig, mapsig |-> mapsig]

\* get_xla_wrapper, by stages; L holds the locals computed so far.
\* Lines 705-708: the two parses, mapsig, rwsig.
wrapper_parse(orig_sig, ctx) ==
  [orig_sig |-> orig_sig, ctx |-> ctx, tree |-> Parse(orig_sig),
   xtree |-> XParse(orig_sig).tree,
   rwsig |-> rewrite_signature(orig_sig, TYPE_NSMAP)]

\* Lines 707-711: mapsig, rwxtree, params, fnopts.
wrapper_sigs(L) ==
  [mapsig |-> create_map_sig(L.xtree, L.orig_sig), rwx |-> XParse(L.rwsig),
   params |-> get_parameters(L.tree)] @@ L

\* Lines 711-727: fnopts, ref_param, the generated name.
wrapper_names(L) ==
  [fnopts |-> DictGet(FUNCTION_OPTIONS, L.mapsig, None),
   ref_param |-> get_reference_param(L.params,
                   DictGet(FUNCTION_OPTIONS, L.mapsig, None)),
   fname |-> typed_child(L.rwx.tree, 1, "fnname").children[1].value,
   gen |-> gen_fnname(L.ctx,
             typed_child(L.rwx.tree, 1, "fnname").children[1].value)] @@ L

\* Lines 727-757: the declaration, the marshaling loop.
wrapper_marshal(L) ==
  [sig |-> get_function_signature(L.rwx.tree, L.rwsig, L.gen.name),
   st |-> marshal_params(L.params, 1, L.fname, L.fnopts, L.ref_param,
            [code |-> << >>, tfetcher |-> TensorFetcher(<<"xlatens">>),
             param_vars |-> << >>,
             xla_ref_param |-> IF L.ref_param # None
                                 THEN param_name(L.ref_param) ELSE NoneStr]),
   result_assign |-> generate_result_assignment(L.tree, RESULT_NAME)] @@ L

\* Lines 731, 758-776: the text of the wrapper.
wrapper_code(L) ==
  LET rname == IF L.result_assign # << >> THEN RESULT_NAME ELSE NoneStr
  IN  [head |->
         L.sig \o <<" ">>
         \o (IF L.ctx.gen_class_mode THEN <<"const ">> ELSE << >>) \o <<"{\n">>
         \o L.st.code \o TensorFetcherGenerate(L.st.tfetcher)
         \o <<"  ">> \o L.result_assign
         \o get_handling_function(L.ctx, L.fname, L.st.xla_ref_param) \o <<"(">>
         \o Join(<<", ">>, L.st.param_vars) \o <<");\n">>
         \o (IF L.result_assign # << >>
               THEN <<"  static_cast<void>(">> \o RESULT_NAME
                    \o <<"); // Avoid warnings in case not used\n">>
               ELSE << >>)
         \o generate_debug_code(L.tree, L.fname, rname, L.params,
                                L.st.param_vars, L.ref_param),
       ret_stmt |->
         generate_return_stmt(L.tree, get_return_type_str(L.rwx.tree, L.rwsig),
                              L.fname, rname, L.params, L.st.param_vars,
                              L.ref_param)] @@ L

\* How the call ends.  ret is "fgen" (a FuncGen is returned), "None"
\* (blacklisted, line 729) or "raise" (an exception left the function); defdb
\* is ctx.defdb after the call; locals are values the function had computed.
wrapper_end(L) ==
  LET locals == [sig |-> L.orig_sig, mapsig |-> L.mapsig, rwsig |-> L.rwsig,
                 fname |-> L.fname, params |-> L.params, fnopts |-> L.fnopts,
                 ref_param |-> L.ref_param]
  IN  IF ~L.rwx.ok
        THEN [ret |-> "raise", fgen |-> None, defdb |-> L.ctx.defdb,
              locals |-> locals]
      ELSE IF is_blacklisted_fn(L.fname, L.mapsig)
        THEN [ret |-> "None", fgen |-> None, defdb |-> L.gen.defdb,
              locals |-> locals]
      ELSE IF L.ret_stmt.exc
        THEN [ret |-> "raise", fgen |-> None, defdb |-> L.gen.defdb,
              locals |-> locals]
      ELSE [ret |-> "fgen",
            fgen |-> FuncGen(L.tree, L.xtree, L.rwx.tree, L.fname, L.gen.name,
                             L.head \o L.ret_stmt.val \o <<"}">>, L.orig_sig,
                             L.rwsig, L.sig,
                             create_stdfunc_sig(L.rwx.tree, L.rwsig), L.mapsig),
            defdb |-> L.gen.defdb, locals |-> locals]

\* get_xla_wrapper(orig_sig, ctx), for an orig_sig that parses.
get_xla_wrapper(orig_sig, ctx) ==
  wrapper_end(wrapper_code(wrapper_marshal(wrapper_names(wrapper_sigs(
    wrapper_parse(orig_sig, ctx))))))

\* ------------------------------------------------------------------------
\* Batch: extract_functions, the generate_* renderers
\* ------------------------------------------------------------------------

OVERRIDE == " const override;"

\* re.match(r'\s*([^\s].*) const override;', line): group 1, or None.
LineMatch(line) ==
  LET starts == {a \in 1..Len(line) : line[a] # WS}
      a == CHOOSE a \in starts : \A b \in starts : a <= b
      ends == {k \in 1..Len(line) : k > a /\ line[k] = OVERRIDE}
      k == CHOOSE k \in ends : \A j \in ends : j <= k
  IN  IF starts = {} THEN NoneStr
      ELSE IF ends = {} THEN NoneStr
      ELSE SubSeq(line, a, k - 1)

RECURSIVE extract_functions(_)
extract_functions(lines) ==
  IF lines = << >> THEN << >>
  ELSE LET fndef == LineMatch(Head(lines))
       IN  (IF fndef # NoneStr /\ XParse(fndef).ok THEN <<fndef>> ELSE << >>)
           \o extract_functions(Tail(lines))

RECURSIVE generate_registrations_of(_)
generate_registrations_of(fgens) ==
  IF fgens = << >> THEN << >>
  ELSE <<"  at::register_extension_backend_op(\n    at::Backend::XLA,\n    \"">>
       \o Head(fgens).mapsig \o <<"\",\n    &">> \o Head(fgens).xfunc
       \o <<");\n">> \o generate_registrations_of(Tail(fgens))

generate_registrations(fgens) ==
  <<"void RegisterAtenTypeFunctions() {\n">> \o generate_registrations_of(fgens)
  \o <<"}\n">>

RECURSIVE generate_functions(_)
generate_functions(fgens) ==
  IF fgens = << >> THEN << >>
  ELSE Head(fgens).code \o <<"\n\n">> \o generate_functions(Tail(fgens))

RECURSIVE generate_class_functions(_)
generate_class_functions(fgens) ==
  IF fgens = << >> THEN << >>
  ELSE <<"  ">> \o Head(fgens).rwsig \o <<" const override;\n">>
       \o generate_class_functions(Tail(fgens))

\* ------------------------------------------------------------------------
\* Inputs
\* ------------------------------------------------------------------------

\* Bounds of the inputs.
MaxBatch == 3
MaxParams == 2
MaxGap == 2

\* g blanks
Blanks(g) == [i \in 1..g |-> WS]

\* A signature text: the parameters joined by a comma and g blanks.
SigText(ret, name, ps, g) ==
  ret \o <<" ">> \o name \o <<"(">> \o Join(<<",">> \o Blanks(g), ps) \o <<")">>

SeqsUpTo(S, n) == UNION {[1..k -> S] : k \in 1..n}

\* Parameter declarations.
ParamPool ==
  {<<"Tensor", " ", "self">>,
   <<"const", " ", "Tensor", " ", "&", " ", "other">>,
   <<"Tensor", " ", "&", " ", "a">>,
   <<"Tensor", " ", "b">>,
   <<"TensorOptions", " ", "options">>,
   <<"TensorList", " ", "tensors">>,
   <<"bool", " ", "flag", "=", "true">>,
   <<"int64_t", " ", "n", " ", "=", " ", "1">>}

\* Return types.
RetTypes ==
  {<<"Tensor">>,
   <<"Tensor", " ", "&">>,
   <<"const", " ", "Tensor", " ", "&">>,
   <<"Tensor", "*">>,
   <<"void">>,
   <<"void", "*">>,
   <<"bool">>,
   <<"std::vector", "<", "Tensor", ">">>,
   <<"std::tuple", "<", "Tensor", ",", "Tensor", ">">>,
   <<"std::tuple", "<", "Tensor", " ", "&", ",", " ", "Tensor", " ", "&", ">">>,
   <<"std::tuple", "<", "Tensor", ",", "const", " ", "double", ",", "int64_t", ">">>,
   <<"const", " ", "std::tuple", "<", "Tensor", ">">>,
   <<"std::tuple">>}

\* Parameter lists every return type is combined with.
FewParamLists ==
  {<<(<<"Tensor", " ", "self">>)>>,
   <<(<<"int64_t", " ", "n">>)>>,
   <<(<<"Tensor", " ", "a">>), <<"Tensor", " ", "self">>>>,
   <<(<<"Tensor", " ", "&", " ", "a">>), <<"Tensor", " ", "&", " ", "b">>,
     <<"bool", " ", "flag">>>>,
   <<(<<"TensorList", " ", "tensors">>), <<"int64_t", " ", "dim">>>>,
   <<(<<"TensorOptions", " ", "options">>), <<"Tensor", " ", "t">>>>}

\* The `to` overloads of _FUNCTION_OPTIONS, with the parameter names permuted
\* over the first three positions and the first parameter const or not.
ToParamTypes ==
  {<<(<<"TensorOptions">>), <<"bool">>, <<"bool">>>>,
   <<(<<"Device">>), <<"ScalarType">>, <<"bool">>, <<"bool">>>>,
   <<(<<"Tensor">>), <<"bool">>, <<"bool">>>>}
ToFirst == {<<"Tensor">>, <<"const", " ", "Tensor", " ", "&">>}
ToNames ==
  {<<(<<"self">>), <<"options">>, <<"a">>, <<"b">>, <<"c">>>>,
   <<(<<"self">>), <<"device">>, <<"dtype">>, <<"b">>, <<"c">>>>,
   <<(<<"self">>), <<"other">>, <<"a">>, <<"b">>, <<"c">>>>,
   <<(<<"other">>), <<"self">>, <<"device">>, <<"b">>, <<"c">>>>,
   <<(<<"device">>), <<"self">>, <<"options">>, <<"b">>, <<"c">>>>,
   <<(<<"options">>), <<"a">>, <<"self">>, <<"other">>, <<"device">>>>}
ToSigs ==
  {SigText(<<"Tensor">>, <<"to">>,
           [i \in 1..(Len(ts) + 1) |->
              (IF i = 1 THEN first ELSE ts[i - 1]) \o <<" ">> \o names[i]],
           g) :
     ts \in ToParamTypes, first \in ToFirst, names \in ToNames, g \in 0..MaxGap}

\* The signatures of the single-signature runs.
Signatures ==
  {SigText(r, n, ps, g) :
     r \in {<<"Tensor">>}, n \in {<<"f">>, <<"empty">>},
     ps \in SeqsUpTo(ParamPool, MaxParams), g \in 0..MaxGap}
  \cup
  {SigText(r, n, ps, 1) :
     r \in RetTypes, n \in {<<"f">>, <<"g">>, <<"h">>}, ps \in FewParamLists}
  \cup ToSigs

\* A line of TypeDefault.h declaring sig.
Decl(sig) == <<" ", " ">> \o sig \o <<OVERRIDE>>

\* Lines of TypeDefault.h for the batch runs.
BatchLines ==
  {Decl(<<"Tensor", " ", "f", "(", "Tensor", " ", "self", ")">>),
   Decl(<<"Tensor", " ", "f", "(", "Tensor", " ", "self", ",", " ", "Tensor",
          " ", "other", ")">>),
   Decl(<<"Tensor", " ", "f", "(", "Tensor", " ", "self", ",", " ", " ",
          "Tensor", " ", "other", ")">>),
   Decl(<<"Tensor", " ", "f", "(", "int64_t", " ", "n", ")">>),
   Decl(<<"void", " ", "f", "_", "1", "(", "Tensor", " ", "self", ")">>),
   Decl(<<"Tensor", " ", "backward", "(", "Tensor", " ", "self", ")">>),
   Decl(<<"Tensor", " ", "cudnn", "_f", "(", "Tensor", " ", "self", ")">>),
   Decl(<<"Tensor", " ", "f", "(", ")">>),
   <<" ", " ", "virtual", " ", "Tensor", " ", "f", "(", "Tensor", " ", "self",
     ")", " const = 0;">>}

\* Functions.h and NativeFunctions.h.
FunctionsFile ==
  <<"static inline", " ", "Tensor", " ", "f", "(", "const Tensor & self", ");\n",
    "static inline", " ", "Tensor", " ", "to", "(", "const Tensor & self", ");\n",
    "static inline", " ", "Tensor", " ", "backward", "(", "const Tensor & self",
    ");\n">>
NativeFunctionsFile ==
  <<"CAFFE2_API", " ", "Tensor", " ", "g", "(", "const Tensor & self", ");\n",
    "CAFFE2_API", " ", "Tensor", " ", "f", "_", "1", "(", "const Tensor & self",
    ");\n">>

\* ------------------------------------------------------------------------
\* generate(args)
\* ------------------------------------------------------------------------

VARIABLES
  args,    \* the parsed command line: typedef (the lines of the file),
           \* functions, native_functions (the files' text), gen_class_mode
  pc,      \* where generate() is: "extract", "loop", "done"
  fndefs,  \* the extracted signatures
  ctx,     \* the Context, None before it is constructed
  idx,     \* how many of fndefs the loop has processed
  fgens,   \* the generated wrappers
  out,     \* the texts written: functions, hfunctions, regs
  calls    \* history: per processed signature, how get_xla_wrapper ended

vars == <<args, pc, fndefs, ctx, idx, fgens, out, calls>>

Args(typedef, gen_class_mode) ==
  [typedef |-> typedef, functions |-> FunctionsFile,
   native_functions |-> NativeFunctionsFile, gen_class_mode |-> gen_class_mode]

InitRest ==
  /\ pc = "extract"
  /\ fndefs = << >>
  /\ ctx = None
  /\ idx = 0
  /\ fgens = << >>
  /\ out = [functions |-> << >>, hfunctions |-> << >>, regs |-> << >>]
  /\ calls = << >>

\* A batch run: a file of up to MaxBatch lines.
Init ==
  /\ args \in {Args(t, m) : t \in SeqsUpTo(BatchLines, MaxBatch), m \in BOOLEAN}
  /\ InitRest

\* A single-signature run: a file of one declaration.
InitSig ==
  /\ args \in {Args(<<Decl(sig)>>, m) : sig \in Signatures, m \in BOOLEAN}
  /\ InitRest

\* generate(), lines 847-852
Extract ==
  /\ pc = "extract"
  /\ fndefs' = extract_functions(args.typedef)
  /\ ctx' = Context(args.functions, args.native_functions, args.gen_class_mode)
  /\ pc' = "loop"
  /\ UNCHANGED <<args, idx, fgens, out, calls>>

\* Lines 855-860 with r what get_xla_wrapper did: a returned FuncGen is
\* appended, None and an exception are passed over.
\* Variant: the try block around the whole loop, an exception ends the batch.
WrapEnd_abort(r) ==
  /\ fgens' = IF r.ret = "fgen" THEN Append(fgens, r.fgen) ELSE fgens
  /\ ctx' = [ctx EXCEPT !.defdb = r.defdb]
  /\ calls' = Append(calls, [ret |-> r.ret, locals |-> r.locals])
  /\ idx' = IF r.ret = "raise" THEN Len(fndefs) ELSE idx + 1

WrapEnd(r) ==
  /\ fgens' = IF r.ret = "fgen" THEN Append(fgens, r.fgen) ELSE fgens
  /\ ctx' = [ctx EXCEPT !.defdb = r.defdb]
  /\ calls' = Append(calls, [ret |-> r.ret, locals |-> r.locals])
  /\ idx' = idx + 1

\* One iteration of the loop of generate(), lines 853-860
Wrap ==
  /\ pc = "loop"
  /\ idx < Len(fndefs)
  /\ WrapEnd(get_xla_wrapper(fndefs[idx + 1], ctx))
  /\ UNCHANGED <<args, pc, fndefs, out>>

\* generate() after the loop, lines 865-890
Output ==
  /\ pc = "loop"
  /\ idx = Len(fndefs)
  /\ out' = IF args.gen_class_mode
              THEN [functions |-> generate_functions(fgens),
                    hfunctions |-> generate_class_functions(fgens),
                    regs |-> << >>]
              ELSE [functions |-> generate_functions(fgens),
                    hfunctions |-> << >>,
                    regs |-> generate_registrations(fgens)]
  /\ pc' = "done"
  /\ UNCHANGED <<args, fndefs, ctx, idx, fgens, calls>>

Next == Extract \/ Wrap \/ Output

Spec == Init /\ [][Next]_vars
SpecSig == InitSig /\ [][Next]_vars

\* ------------------------------------------------------------------------
\* Properties
\* ------------------------------------------------------------------------

\* The tokens of a text: the values of its lexemes, blanks aside.
TokenValues(text) == [k \in 1..Len(Lex(text, 1)) |-> Lex(text, 1)[k].value]

Contains(s, c) == \E i \in 1..Len(s) : s[i] = c

\* The processed signatures get_xla_wrapper returned a FuncGen for, in order.
RECURSIVE Returned(_)
Returned(n) ==
  IF n = 0 THEN << >>
  ELSE Returned(n - 1) \o (IF calls[n].ret = "fgen" THEN <<n>> ELSE << >>)

\* Signature i is blacklisted, in the words of the claim: its name is in the
\* exact-name blacklist, or its name holds a blacklisted word, or its
\* canonical key matches a pattern.
Blacklisted(i) ==
  \/ calls[i].locals.fname \in FN_BLACKLIST
  \/ \E k \in 1..Len(FN_BLACKLIST_REGEX) :
       \/ Contains(calls[i].locals.fname, FN_BLACKLIST_REGEX[k])
       \/ ReMatch(FN_BLACKLIST_REGEX[k], calls[i].locals.mapsig)

\* The output texts hold something generated for signature i: its counter
\* line in a wrapper definition, its registration entry, its class declaration.
InOutput(i) ==
  \/ Find(out.functions,
          <<"  XLA_COUNTER(\"aten::">> \o calls[i].locals.fname \o <<"\", 1);\n">>)
  \/ Find(out.regs, <<"\"">> \o calls[i].locals.mapsig \o <<"\",\n    &">>)
  \/ Find(out.hfunctions,
          <<"  ">> \o calls[i].locals.rwsig \o <<" const override;\n">>)

\* C1: in either output mode, nothing is generated for a signature whose name
\* is in the exact-name blacklist or whose name or canonical key matches a
\* blacklist pattern: no FuncGen in fgens, no wrapper definition, no
\* registration entry and no class declaration in the output.
C1_BlacklistedNeverGenerated ==
  \A i \in 1..Len(calls) :
    Blacklisted(i) =>
      /\ calls[i].ret # "fgen"
      /\ \A k \in 1..Len(fgens) :
           fgens[k].func # calls[i].locals.fname /\ fgens[k].sig # fndefs[i]
      /\ ~InOutput(i)

\* C1 witness: the output is written, an exact-name and a pattern blacklisted
\* signature were in the batch, and a third signature was generated.
C1_Witness ==
  /\ pc = "done"
  /\ \E i, j, k \in 1..Len(calls) :
       /\ calls[i].locals.fname \in FN_BLACKLIST
       /\ Contains(calls[j].locals.fname, "cudnn")
       /\ calls[k].ret = "fgen" /\ InOutput(k)

\* C2: a signature that raises or is blacklisted is dropped and the loop goes
\* on; when the batch ends every extracted signature was processed, and fgens
\* holds exactly those that neither raised nor were blacklisted, each once,
\* in input order.  The extracted signatures are the declarations that parse.
C2_BatchKeepsTheRest ==
  /\ Len(calls) = idx /\ idx <= Len(fndefs)
  /\ [k \in 1..Len(fgens) |-> fgens[k].sig]
       = [k \in 1..Len(Returned(idx)) |-> fndefs[Returned(idx)[k]]]
  /\ pc = "done" => idx = Len(fndefs)
  /\ pc # "extract" =>
       fndefs = SelectSeq([k \in 1..Len(args.typedef) |-> LineMatch(args.typedef[k])],
                          LAMBDA d : d # NoneStr /\ XParse(d).ok)

\* C2 witness: a batch ended in which a signature raised, a later one was
\* blacklisted and a still later one was generated.
C2_Witness ==
  /\ pc = "done"
  /\ \E i, j, k \in 1..Len(calls) :
       /\ i < j /\ j < k
       /\ calls[i].ret = "raise" /\ calls[j].ret = "None" /\ calls[k].ret = "fgen"
  /\ Len(fgens) = 1

\* How many of the first i processed signatures have the base name of the i-th.
SameNameUpTo(i) ==
  Cardinality({j \in 1..i : calls[j].locals.fname = calls[i].locals.fname})

\* C3: in flat mode the first signature with base name x gets xla_x and the
\* k-th (k >= 2) gets xla_x_<k-1>, counting the signatures in input order; the
\* wrappers of one base name are pairwise distinct.
C3_OverloadSuffix ==
  ~args.gen_class_mode =>
    /\ \A k \in 1..Len(fgens) :
         LET i == Returned(Len(calls))[k]
             x == calls[i].locals.fname
         IN  fgens[k].xfunc =
               IF SameNameUpTo(i) = 1 THEN <<"xla_">> \o x
               ELSE <<"xla_">> \o x \o <<"_", ToString(SameNameUpTo(i) - 1)>>
    /\ \A k, l \in 1..Len(fgens) :
         k # l /\ fgens[k].func = fgens[l].func => fgens[k].xfunc # fgens[l].xfunc

\* C3 witness: flat mode, three wrappers of base name f: xla_f, xla_f_1, xla_f_2.
C3_Witness ==
  /\ ~args.gen_class_mode
  /\ Len(fgens) = 3
  /\ fgens[1].xfunc = <<"xla_", "f">>
  /\ fgens[2].xfunc = <<"xla_", "f", "_", "1">>
  /\ fgens[3].xfunc = <<"xla_", "f", "_", "2">>

\* C8 (as claimed): two processed signatures with the same token sequence,
\* differing only in the blanks between tokens, have the same canonical key.
C8_KeyIgnoresWhitespace ==
  \A i, j \in 1..Len(calls) :
    TokenValues(calls[i].locals.sig) = TokenValues(calls[j].locals.sig)
      => calls[i].locals.mapsig = calls[j].locals.mapsig

\* ------------------------------------------------------------------------
\* Reference parameter (C4, C5, C6)
\* ------------------------------------------------------------------------

MinOf(S) == CHOOSE x \in S : \A y \in S : x <= y
MaxOf(S) == CHOOSE x \in S : \A y \in S : x >= y

CoreOf(p) == type_core(param_type(p))

\* Positions of the Tensor parameters, of those named self or const-qualified,
\* of the TensorOptions and TensorList parameters.
Tensors(params) == {k \in 1..Len(params) : CoreOf(params[k]) = <<"Tensor">>}
Primary(params) ==
  {k \in Tensors(params) :
     param_name(params[k]) = <<"self">> \/ type_is_const(param_type(params[k]))}
Others(params) ==
  {k \in 1..Len(params) :
     CoreOf(params[k]) \in {<<"TensorOptions">>, <<"TensorList">>}}
Named(params, name) == {k \in 1..Len(params) : param_name(params[k]) = name}

\* C4: when the override table has an entry for the canonical key and the
\* entry names a parameter of the signature, that parameter is elected,
\* whatever its type and position and whatever comes before it.
C4_OverrideWins ==
  \A i \in 1..Len(calls) :
    LET c == calls[i].locals
    IN  (/\ c.mapsig \in DOMAIN FUNCTION_OPTIONS
         /\ Named(c.params, FUNCTION_OPTIONS[c.mapsig].ref_param) # {})
        => c.ref_param =
             c.params[MinOf(Named(c.params, FUNCTION_OPTIONS[c.mapsig].ref_param))]

\* C4 witness: a generated `to` wrapper whose key has an override, whose first
\* parameter is a Tensor named self or const, and whose elected parameter is
\* the later parameter device.
C4_Witness ==
  \E i \in 1..Len(calls) :
    LET c == calls[i].locals
    IN  /\ calls[i].ret = "fgen"
        /\ c.mapsig \in DOMAIN FUNCTION_OPTIONS
        /\ 1 \in Primary(c.params)
        /\ FUNCTION_OPTIONS[c.mapsig].ref_param = <<"device">>
        /\ c.ref_param # c.params[1]
        /\ param_name(c.ref_param) = <<"device">>

\* C5 (as claimed): without an override the elected parameter is the first
\* Tensor named self or const; failing that the first TensorOptions or
\* TensorList parameter; failing that the last Tensor parameter.
C5_ElectionAsClaimed ==
  \A i \in 1..Len(calls) :
    LET c == calls[i].locals
    IN  c.fnopts = None =>
          c.ref_param =
            IF Primary(c.params) # {} THEN c.params[MinOf(Primary(c.params))]
            ELSE IF Others(c.params) # {} THEN c.params[MinOf(Others(c.params))]
            ELSE IF Tensors(c.params) # {} THEN c.params[MaxOf(Tensors(c.params))]
            ELSE None

\* C5: without an override the elected parameter is the first Tensor named
\* self or const; failing that the last Tensor parameter of the list; only
\* when the list has no Tensor parameter, the first TensorOptions or
\* TensorList parameter; none when there is none of these.
C5_Election ==
  \A i \in 1..Len(calls) :
    LET c == calls[i].locals
    IN  c.fnopts = None =>
          c.ref_param =
            IF Primary(c.params) # {} THEN c.params[MinOf(Primary(c.params))]
            ELSE IF Tensors(c.params) # {} THEN c.params[MaxOf(Tensors(c.params))]
            ELSE IF Others(c.params) # {} THEN c.params[MinOf(Others(c.params))]
            ELSE None

\* C5 witness: no override, no Tensor named self or const, a TensorOptions or
\* TensorList parameter and a Tensor parameter: the Tensor is elected.
C5_Witness ==
  \E i \in 1..Len(calls) :
    LET c == calls[i].locals
    IN  /\ calls[i].ret = "fgen"
        /\ c.fnopts = None
        /\ Primary(c.params) = {}
        /\ Others(c.params) # {} /\ Tensors(c.params) # {}
        /\ c.ref_param = c.params[MaxOf(Tensors(c.params))]

\* C6 (as claimed): a signature with no Tensor, TensorList or TensorOptions
\* parameter elects no reference parameter, its synthesis does not raise, and
\* the text of its wrapper refers to no reference parameter.
C6_ContextFree ==
  \A i \in 1..Len(calls) :
    LET c == calls[i].locals
    IN  Tensors(c.params) \cup Others(c.params) = {} =>
          /\ c.ref_param = None
          /\ calls[i].ret # "raise"
          /\ \A k \in 1..Len(fgens) :
               fgens[k].sig = c.sig =>
                 /\ ~Contains(fgens[k].code, "None")
                 /\ ~Contains(fgens[k].code, ", bridge::GetXlaDevice(")

\* ------------------------------------------------------------------------
\* Signature forms (C7, C9)
\* ------------------------------------------------------------------------

NonBlank(s) == SelectSeq(s, LAMBDA c : c # WS)

\* The tokens below a tree, in order.
RECURSIVE Leaves(_)
LeavesOf(cs) ==
  Flatten([k \in 1..Len(cs) |-> IF IsToken(cs[k]) THEN <<cs[k]>> ELSE Leaves(cs[k])])
Leaves(t) == LeavesOf(t.children)

\* The text of a type without its const, & and * tokens.
StrippedType(t) ==
  Flatten([k \in 1..Len(Leaves(t)) |->
             IF Leaves(t)[k].type \in {"CONST", "REF", "PTR"} THEN << >>
             ELSE Leaves(t)[k].value])

\* The key of the claim: name, "(", the stripped types joined by commas,
\* ") -> ", the return type.
KeyOf(xtree) ==
  xtree.children[2].children[1].value \o <<"(">>
  \o Join(<<",">>, [k \in 1..Len(extract_list(xtree.children[4])) |->
                     StrippedType(param_type(extract_list(xtree.children[4])[k]))])
  \o <<")", " -> ">> \o StrippedType(xtree.children[1])

\* C7 (as claimed): the canonical key of a processed signature is, blanks
\* aside, its name, "(", its parameters' types without const, & and *, joined
\* by commas, ") -> " and its return type: no parameter name, nothing of a
\* default value.
C7_KeyIsNameAndTypes ==
  \A i \in 1..Len(calls) :
    NonBlank(calls[i].locals.mapsig) = NonBlank(KeyOf(XParse(calls[i].locals.sig).tree))

\* The declarations of the parameters in a text: the chunks between the first
\* "(" and the last ")", split at the commas outside angle brackets.
RECURSIVE SplitTop(_, _, _, _)
SplitTop(s, i, depth, cur) ==
  IF i > Len(s) THEN <<cur>>
  ELSE IF s[i] = "," /\ depth = 0
    THEN <<cur>> \o SplitTop(s, i + 1, 0, << >>)
  ELSE SplitTop(s, i + 1,
                IF s[i] = "<" THEN depth + 1
                ELSE IF s[i] = ">" THEN depth - 1 ELSE depth,
                Append(cur, s[i]))
Segs(text) ==
  SplitTop(SubSeq(text, MinOf({k \in 1..Len(text) : text[k] = "("}) + 1,
                        MaxOf({k \in 1..Len(text) : text[k] = ")"}) - 1),
           1, 0, << >>)

\* The core type of a declaration: its first token other than const.
SegCore(seg) ==
  LET ts == SelectSeq(TokenValues(seg), LAMBDA v : v # <<"const">>) IN ts[1]

\* The default value of a declaration: what follows its "=", if any.
SegDefault(seg) ==
  IF Contains(seg, "=")
    THEN NonBlank(SubSeq(seg, MinOf({k \in 1..Len(seg) : seg[k] = "="}) + 1, Len(seg)))
    ELSE NoneStr

\* form has the parameters of sig, in the order of sig; its types are those
\* of sig mapped by tmap.
SameParams(form, sig, tmap) ==
  /\ Len(Segs(form)) = Len(Segs(sig))
  /\ \A j \in 1..Len(Segs(sig)) :
       SegCore(Segs(form)[j]) = DictGet(tmap, SegCore(Segs(sig)[j]), SegCore(Segs(sig)[j]))

KeepsDefaults(form, sig) ==
  \A j \in 1..Len(Segs(sig)) :
    j <= Len(Segs(form)) /\ SegDefault(Segs(form)[j]) = SegDefault(Segs(sig)[j])

DropsDefaults(form) ==
  \A j \in 1..Len(Segs(form)) : SegDefault(Segs(form)[j]) = NoneStr

NoMap == [k \in {} |-> << >>]

\* C9 (as claimed): the namespace-rewritten signature, the wrapper
\* declaration, the name-free declarator and the canonical key of a generated
\* wrapper have the parameters of the input in the order of the input, and
\* each keeps the default-value literals of the input.
C9_RewritingKeepsDefaults ==
  \A k \in 1..Len(fgens) :
    /\ SameParams(fgens[k].rwsig, fgens[k].sig, TYPE_NSMAP)
    /\ SameParams(fgens[k].cppsig, fgens[k].sig, TYPE_NSMAP)
    /\ SameParams(fgens[k].funsig, fgens[k].sig, TYPE_NSMAP)
    /\ SameParams(fgens[k].mapsig, fgens[k].sig, NoMap)
    /\ KeepsDefaults(fgens[k].rwsig, fgens[k].sig)
    /\ KeepsDefaults(fgens[k].cppsig, fgens[k].sig)
    /\ KeepsDefaults(fgens[k].funsig, fgens[k].sig)
    /\ KeepsDefaults(fgens[k].mapsig, fgens[k].sig)

\* C9: the namespace-rewritten signature, the wrapper declaration, the
\* name-free declarator and the canonical key of a generated wrapper have the
\* parameters of the input in the order of the input; the first three carry no
\* default value at all, the canonical key alone keeps the default-value
\* literals of the input.
C9_RewritingKeepsParams ==
  \A k \in 1..Len(fgens) :
    /\ SameParams(fgens[k].rwsig, fgens[k].sig, TYPE_NSMAP)
    /\ SameParams(fgens[k].cppsig, fgens[k].sig, TYPE_NSMAP)
    /\ SameParams(fgens[k].funsig, fgens[k].sig, TYPE_NSMAP)
    /\ SameParams(fgens[k].mapsig, fgens[k].sig, NoMap)
    /\ DropsDefaults(fgens[k].rwsig)
    /\ DropsDefaults(fgens[k].cppsig)
    /\ DropsDefaults(fgens[k].funsig)
    /\ KeepsDefaults(fgens[k].mapsig, fgens[k].sig)

\* C9 witness: a generated wrapper of a signature with two parameters, the
\* second with a default value, whose wrapper declaration has two parameters.
C9_Witness ==
  \E k \in 1..Len(fgens) :
    /\ Len(Segs(fgens[k].sig)) = 2
    /\ SegDefault(Segs(fgens[k].sig)[2]) = <<"true">>
    /\ Len(Segs(fgens[k].cppsig)) = 2
    /\ SegDefault(Segs(fgens[k].cppsig)[2]) = NoneStr

\* ------------------------------------------------------------------------
\* Return value (C10)
\* ------------------------------------------------------------------------

\* The expression of the return statement of a wrapper.
RetExpr(code) ==
  SubSeq(code, MinOf({k \in 1..Len(code) : code[k] = "  return "}) + 1, Len(code) - 2)

HasReturn(code) == Contains(code, "  return ")

EndsWith(s, sfx) ==
  Len(s) >= Len(sfx) /\ SubSeq(s, Len(s) - Len(sfx) + 1, Len(s)) = sfx

ByName(t) == type_is_const(t) \/ type_is_refptr(t, <<"&">>)

Wrapped(v, ref) ==
  <<"bridge::CreateXlaTensor(">> \o v \o <<", bridge::GetXlaDevice(">>
  \o param_name(ref) \o <<"))">>

\* Element j (from 0) of a tuple return type, as the claim returns it.
ElemValue(t, j, params, ref) ==
  IF ByName(t) THEN param_name(params[j + 1])
  ELSE IF type_core(t) = <<"Tensor">>
    THEN Wrapped(<<"std::get<", ToString(j), ">(">> \o RESULT_NAME \o <<")">>, ref)
  ELSE <<"std::get<", ToString(j), ">(">> \o RESULT_NAME \o <<")">>

\* C10: a generated wrapper with a Tensor return type returns its first
\* parameter by name when the type is const or a reference, otherwise the
\* result wrapped with the device of the elected parameter; one with a
\* std::tuple return type returns, for element i, parameter i by name when the
\* element is const or a reference, otherwise std::get<i> of the result,
\* wrapped in the same way when the element is a Tensor and raw when not.
C10_ReturnValue ==
  \A k \in 1..Len(fgens) :
    LET c == calls[Returned(Len(calls))[k]].locals
        rtype == fgens[k].tree.children[1]
    IN  /\ type_core(rtype) = <<"Tensor">> =>
             /\ HasReturn(fgens[k].code)
             /\ RetExpr(fgens[k].code) =
                  IF ByName(rtype) THEN param_name(c.params[1])
                  ELSE Wrapped(RESULT_NAME, c.ref_param)
        /\ type_core(rtype) = <<"std::tuple">> =>
             /\ HasReturn(fgens[k].code)
             /\ EndsWith(RetExpr(fgens[k].code),
                  <<"(">>
                  \o Join(<<", ">>,
                       [j \in 1..Len(tuple_type_list(rtype).val) |->
                          ElemValue(tuple_type_list(rtype).val[j], j - 1,
                                    c.params, c.ref_param)])
                  \o <<")">>)

\* C10 witness: a generated wrapper whose return type is a tuple of a value
\* Tensor, a const element and a value non-Tensor: wrapped, by name, raw.
C10_Witness ==
  \E k \in 1..Len(fgens) :
    LET rtype == fgens[k].tree.children[1]
    IN  /\ type_core(rtype) = <<"std::tuple">>
        /\ Len(tuple_type_list(rtype).val) = 3
        /\ ~ByName(tuple_type_list(rtype).val[1])
        /\ ByName(tuple_type_list(rtype).val[2])
        /\ type_core(tuple_type_list(rtype).val[3]) # <<"Tensor">>
        /\ EndsWith(RetExpr(fgens[k].code),
                    <<", ", "b", ", ", "std::get<", "2", ">(", "x_result", ")", ")">>)

\* ------------------------------------------------------------------------
\* Result assignment and return statement (C11)
\* ------------------------------------------------------------------------

HasAssign(code) == Find(code, <<"auto&& ">> \o RESULT_NAME \o <<" = ">>)

VoidNoPointer(rtype) ==
  type_core(rtype) = <<"void">> /\ ~type_is_refptr(rtype, <<"*">>)

\* C11: in every generated wrapper the result-capturing assignment and the
\* return statement are both absent when the core of the return type is void
\* with no pointer qualifier, and both present for every other return type,
\* void* included.
C11_AssignWithReturn ==
  \A k \in 1..Len(fgens) :
    /\ HasAssign(fgens[k].code) = HasReturn(fgens[k].code)
    /\ HasReturn(fgens[k].code) = ~VoidNoPointer(fgens[k].tree.children[1])

\* C11 witness: a generated wrapper with return type void*, which has the
\* assignment and the return statement.
C11_Witness ==
  \E k \in 1..Len(fgens) :
    /\ type_core(fgens[k].tree.children[1]) = <<"void">>
    /\ type_is_refptr(fgens[k].tree.children[1], <<"*">>)
    /\ HasAssign(fgens[k].code)
    /\ RetExpr(fgens[k].code) = RESULT_NAME

\* ------------------------------------------------------------------------
\* Position-preserving emitter (C12)
\* ------------------------------------------------------------------------

\* The emitters of a walk over toks[k..]: es followed by the emitter after
\* each further advance; es ends with the emitter before toks[k].
RECURSIVE AdvanceAll(_, _, _)
AdvanceAll(toks, k, es) ==
  IF k > Len(toks) THEN es
  ELSE AdvanceAll(toks, k + 1, Append(es, advance(es[Len(es)], toks[k])))

\* The text of sig from the start of the first token to the end of token k.
Span(sig, toks, k) == SubSeq(sig, toks[1].column, toks[k].end_column - 1)

\* No token of toks is renamed by rewrite_signature, none is a default value.
Untouched(toks) ==
  \A k \in 1..Len(toks) :
    /\ ~(toks[k].type = "TNAME" /\ toks[k].value \in DOMAIN TYPE_NSMAP)
    /\ toks[k].value # <<"=">>

\* The walk of emit_string over the tree t of sig, never skipping.
WalkEmits(sig, t) ==
  /\ rewrite_sig(t, sig, "rewrite_sig") = SubSeq(sig, first_match(t) + 1, last_match(t))
  /\ rewrite_sig(t, sig, "copy") = SubSeq(sig, first_match(t) + 1, last_match(t))
  /\ emit_string(t, StringEmit(sig), "rewrite_sig").pos = last_match(t)

\* The same walk token by token; es[k + 1] is the emitter after token k.
WalkPreserves(sig, toks, es, rwsig) ==
  /\ \A k \in 1..Len(toks) :
       /\ es[k + 1].sval = Span(sig, toks, k)
       /\ es[k + 1].pos = toks[k].end_column - 1
       /\ es[k + 1].pos >= es[k].pos
  /\ Untouched(toks) => rwsig = Span(sig, toks, Len(toks))

WalkOver(sig, toks, rwsig) ==
  WalkPreserves(sig, toks, AdvanceAll(toks, 1, <<StringEmit(sig)>>), rwsig)

\* C12: walking the token-complete tree of a processed signature, its tokens
\* unmodified, with a policy that never skips (recurse at every node, or copy)
\* and no append, gives the text of the signature from the start of its first
\* token to the end of its last; after each token the emitted text is the
\* original up to the end of that token, so every gap is emitted once and
\* nothing twice, and the cursor never decreases.  rewrite_signature is such
\* a walk when it renames no type and the signature has no default value.
C12_WalkReproducesText ==
  \A i \in 1..Len(calls) :
    /\ WalkEmits(calls[i].locals.sig, XParse(calls[i].locals.sig).tree)
    /\ WalkOver(calls[i].locals.sig, Leaves(XParse(calls[i].locals.sig).tree),
                calls[i].locals.rwsig)

\* C12 witness: a generated wrapper of a signature with blanks between its
\* tokens, none of them renamed, whose rewritten signature is its text.
C12_Witness ==
  \E i \in 1..Len(calls) :
    /\ calls[i].ret = "fgen"
    /\ Contains(calls[i].locals.sig, WS)
    /\ calls[i].locals.rwsig = calls[i].locals.sig

\* ------------------------------------------------------------------------
\* Names and the overload counter over a batch (C13, C14)
\* ------------------------------------------------------------------------

\* C13 (as claimed): in flat mode any two generated wrappers of a batch have
\* different wrapper names, whatever their base names, and so do the entries
\* of the registration table.
C13_NamesDistinct ==
  ~args.gen_class_mode =>
    \A k, l \in 1..Len(fgens) : k # l => fgens[k].xfunc # fgens[l].xfunc

\* How many of the first k generated wrappers have the base name of the k-th.
GeneratedUpTo(k) ==
  Cardinality({l \in 1..k : fgens[l].func = fgens[k].func})

\* The wrapper names of a batch from which the dropped signatures are taken
\* out: the overloads of a base name numbered over the generated ones alone.
NamesAsIfAbsent ==
  ~args.gen_class_mode =>
    \A k \in 1..Len(fgens) :
      fgens[k].xfunc =
        IF GeneratedUpTo(k) = 1 THEN <<"xla_">> \o fgens[k].func
        ELSE <<"xla_">> \o fgens[k].func \o <<"_", ToString(GeneratedUpTo(k) - 1)>>

\* C14 (as claimed): processing a signature that is dropped, blacklisted or
\* raising, leaves the overload counter as it was, and the generated wrappers
\* have the names they would have without the dropped signatures.
C14_DroppedLeavesCounter ==
  /\ []NamesAsIfAbsent
  /\ [][(/\ pc = "loop"
         /\ Len(calls') = Len(calls) + 1
         /\ calls'[Len(calls')].ret # "fgen") => ctx'.defdb = ctx.defdb]_vars
====
